---- MODULE Spec2Model ----
(***************************************************************************)
(* Apte::FastVector<T> (src/FastVector.h) as a state machine.              *)
(*                                                                         *)
(* The state is a small heap of storage blocks and up to two FastVector    *)
(* objects, each with the three fields of the class (m_Data, m_Size,       *)
(* m_Capacity).  Every public member function is one action that performs  *)
(* the whole body of the function, private helpers included.  Each slot of *)
(* a block records the value stored in it and whether an object lives      *)
(* there, so that placement-new and explicit destructor calls are visible. *)
(*                                                                         *)
(* Reading an object whose destructor has already run is undefined         *)
(* behaviour; the model lets such a read yield any value of T.             *)
(*                                                                         *)
(* A call that ends by an exception (std::out_of_range from pop_back,      *)
(* std::bad_alloc from allocate, an exception of T's constructor) is an    *)
(* action of its own that performs the body up to the throwing statement.  *)
(***************************************************************************)
EXTENDS Integers, Sequences, FiniteSets, TLC

\* ------------------------------------------------------------------ bounds
MaxSize == 5
MaxPairSize == 1
MaxVal == 2
MaxReserve == 5
MaxPairReserve == 1
NBlocks == 3
MaxFailSize == 2
MaxFailReserve == 2

\* -------------------------------------------------------- program constants
initialCapacity == 4
NULL == 0

Values == 1 .. MaxVal
Bufs == {"b1", "b2"}
Ptrs == 1 .. NBlocks

VARIABLES
    bufs,      \* [Bufs -> FastVector object]: alive, m_Data, m_Size, m_Capacity
    heap,      \* [Ptrs -> block]: st ("free" | "alloc"), n (slots allocated), slots,
               \* ev (ghost: what the running operation did to the block;
               \* empty between operations)
    op,        \* ghost: the member function executed by the last step
    hist,      \* ghost: the calls made on b1 since its default construction
    rsv,       \* ghost: the last reserve(k) on b1 with k >= capacity
    nothrow,   \* std::is_nothrow_move_constructible_v<T>, fixed per instantiation
    log        \* ghost: what the last call did to blocks: "release", and what the
               \* language leaves undefined or what loses an object
               \* ("double_free", "size_mismatch", "leaked_element",
               \* "double_destroy")

vars == <<bufs, heap, op, hist, rsv, nothrow, log>>

\* ------------------------------------------------------------- heap helpers
\* A slot is raw (never constructed since allocation), live (holds an object)
\* or dead (its object's destructor has run); only a live slot has a value.
RawSlot == [val |-> 0, st |-> "raw"]
DeadSlot == [val |-> 0, st |-> "dead"]
FreeBlock == [st |-> "free", n |-> 0, slots |-> <<>>, ev |-> {}]
NoObject == [alive |-> FALSE, m_Data |-> NULL, m_Size |-> 0, m_Capacity |-> 0]

\* FastVector() noexcept : m_Data(nullptr), m_Size(0), m_Capacity(0)
EmptyVector == [alive |-> TRUE, m_Data |-> NULL, m_Size |-> 0, m_Capacity |-> 0]

\* The address ::operator new returns: a block that is not in use.
NewPtr(H) == CHOOSE p \in Ptrs : H[p].st = "free" /\ \A q \in Ptrs : q < p => H[q].st # "free"
HasFree(H) == \E p \in Ptrs : H[p].st = "free"

\* allocate(n): raw, uninitialised storage for n objects (n = 0 still yields a
\* non-null pointer).
allocate(H, p, n) ==
    [H EXCEPT ![p] = [st |-> "alloc", n |-> n, slots |-> [i \in 1 .. n |-> RawSlot],
                      ev |-> {}]]

\* What a call deallocate(ptr, n) does to block blk: it releases it, or it
\* releases a block that is not allocated; it passes an element count other
\* than the one the block was allocated with; it releases a block that still
\* holds a live object.  What the operation did to the block before stays on
\* record.
ReleaseEv(blk, n) ==
    (IF blk.st # "alloc" THEN {"double_free"} ELSE {"release"})
    \cup (IF blk.st = "alloc" /\ n # blk.n THEN {"size_mismatch"} ELSE {})
    \cup (IF \E i \in 1 .. Len(blk.slots) : blk.slots[i].st = "live"
          THEN {"leaked_element"} ELSE {})
    \cup blk.ev

\* deallocate(ptr, n): ::operator delete(ptr, n * sizeof(T), align); a null
\* pointer is a no-op.
deallocateNothing(H, ptr, n) == H
deallocate(H, ptr, n) ==
    IF ptr = NULL THEN H
    ELSE [H EXCEPT ![ptr] = [st |-> "free", n |-> 0, slots |-> <<>>,
                             ev |-> ReleaseEv(H[ptr], n)]]

\* new (ptr + i) T(v)
Construct(H, ptr, i, v) ==
    [H EXCEPT ![ptr].slots[i + 1] = [val |-> v, st |-> "live"]]

\* The record of destructor calls on the slots 1 .. k of a block: a call on a
\* slot that holds no live object is undefined.
DestroyEv(blk, from, to) ==
    blk.ev \cup (IF \E i \in from .. to : i \in 1 .. Len(blk.slots) /\ blk.slots[i].st # "live"
                 THEN {"double_destroy"} ELSE {})

\* ptr[i].~T()
DestroyAt(H, ptr, i) ==
    [H EXCEPT ![ptr].slots[i + 1] = DeadSlot,
              ![ptr].ev = DestroyEv(H[ptr], i + 1, i + 1)]

\* nuke(): runs the destructor of the slots [0, m_Size); m_Size is not written.
nuke(H, B) ==
    IF B.m_Size = 0 \/ B.m_Data = NULL THEN H
    ELSE [H EXCEPT ![B.m_Data].slots =
            [i \in 1 .. Len(H[B.m_Data].slots) |->
                IF i <= B.m_Size
                THEN DeadSlot
                ELSE H[B.m_Data].slots[i]],
                   ![B.m_Data].ev = DestroyEv(H[B.m_Data], 1, B.m_Size)]

\* The values a read of slot s can yield.
ReadVals(s) == IF s.st = "live" THEN {s.val} ELSE Values

\* The value sequences a transfer loop "for i < k: new (newData + i) T(src[i])"
\* can construct from the slots of a block.
RECURSIVE TransferVals(_, _)
TransferVals(slots, k) ==
    IF k = 0 THEN {<<>>}
    ELSE {Append(s, x) : s \in TransferVals(slots, k - 1), x \in ReadVals(slots[k])}

\* The value sequences of length k over T.
RECURSIVE AnyVals(_)
AnyVals(k) ==
    IF k = 0 THEN {<<>>} ELSE {Append(s, x) : s \in AnyVals(k - 1), x \in Values}

\* newData = allocate(n) followed by the loop of placement-new calls that
\* constructs vals[i] in slot i of the new block p.
Filled(H, p, n, vals) ==
    [H EXCEPT ![p] = [st |-> "alloc", n |-> n,
                      slots |-> [i \in 1 .. n |->
                                   IF i <= Len(vals) THEN [val |-> vals[i], st |-> "live"]
                                   ELSE allocate(H, p, n)[p].slots[i]],
                      ev |-> allocate(H, p, n)[p].ev]]

\* The slots m_Data points at, and whether [0, m_Size) all hold live objects.
SlotsOf(H, B) == IF B.m_Data = NULL THEN <<>> ELSE H[B.m_Data].slots
AllLive(H, B) == \A i \in 1 .. B.m_Size : H[B.m_Data].slots[i].st = "live"

\* ------------------------------------------------------------------ ghosts
\* op: which member function the last step ran, on which object, with which
\* argument, whether it threw, whether it called grow(), and the (m_Size,
\* m_Capacity) pair grow() returned with; err names what was thrown
\* ("out_of_range", "bad_alloc", or "transfer" / "construct" for an exception
\* of T's constructor in a transfer loop / in push_back's own placement new).
MkOp(name, b, src, arg, threw, grew, after) ==
    [name |-> name, b |-> b, src |-> src, arg |-> arg, threw |-> threw,
     grew |-> grew, after |-> after,
     err |-> IF threw THEN "out_of_range" ELSE "none"]
MkThrow(name, b, src, arg, err) ==
    [MkOp(name, b, src, arg, TRUE, FALSE, <<>>) EXCEPT !.err = err]
NoOp == MkOp("init", "none", "none", 0, FALSE, FALSE, <<>>)

\* hist: a push_back(v) is recorded as v, a successful pop_back() as 0.  The
\* record is kept while it is a run of push_back calls only, or a prefix of
\* push, push, push, pop, pop, push; any other call sequence is HistOff.
HistOff == <<-1>>
AllPush(h) == \A i \in 1 .. Len(h) : h[i] >= 1
ScenarioPrefix(h) == Len(h) <= 6 /\ \A i \in 1 .. Len(h) : (i \in {4, 5}) <=> (h[i] = 0)
Track(h, e) ==
    IF h = HistOff THEN HistOff
    ELSE IF AllPush(Append(h, e)) \/ ScenarioPrefix(Append(h, e)) THEN Append(h, e)
    ELSE HistOff

\* rsv: after reserve(k) with k >= capacity: k, the block and m_Size right
\* after the call, and the number n of push_back calls made since (no other
\* call in between, n <= k).
NoRsv == [on |-> FALSE, k |-> 0, blk |-> NULL, s0 |-> 0, n |-> 0]
RsvPush(r) == IF r.on /\ r.n < r.k THEN [r EXCEPT !.n = r.n + 1] ELSE NoRsv

\* An operation that turns the heap into R leaves the blocks of R behind and
\* what it did to them on record; one that touches no block leaves the heap
\* alone and an empty record.
Scrub(H) == [p \in Ptrs |-> [H[p] EXCEPT !.ev = {}]]
Events(H) == UNION {H[p].ev : p \in Ptrs}
Effect(R) == heap' = Scrub(R) /\ log' = Events(R)
NoEffect == UNCHANGED heap /\ log' = {}

\* -------------------------------------------------------------------- grow
\* size_t newCapacity = m_Capacity > 0 ? m_Capacity * 2 : initialCapacity;
NewCapacityLinear(cap) == cap + initialCapacity
NewCapacity(cap) == IF cap > 0 THEN cap * 2 ELSE initialCapacity

\* grow() with newData = p and the transferred values vals.  Both branches of
\* the if constexpr construct slot i of the new block from m_Data[i]; then the
\* old slots are destroyed, the old block is released (no null check) and the
\* new block and capacity are adopted.  m_Size is not written.
Reverse(q) == [i \in 1 .. Len(q) |-> q[Len(q) + 1 - i]]
growHeapReversed(H, B, p, vals) ==
    deallocate(nuke(Filled(H, p, NewCapacity(B.m_Capacity), Reverse(vals)), B),
               B.m_Data, B.m_Capacity)
growHeap(H, B, p, vals) ==
    deallocate(nuke(Filled(H, p, NewCapacity(B.m_Capacity), vals), B),
               B.m_Data, B.m_Capacity)
growBufKeepsCapacity(B, p) == [B EXCEPT !.m_Data = p]
growBuf(B, p) ==
    [B EXCEPT !.m_Data = p, !.m_Capacity = NewCapacity(B.m_Capacity)]

\* ----------------------------------------------------------------- actions
\* push_back(const T&) (rv = FALSE) and push_back(T&&) (rv = TRUE): the two
\* overloads differ only in how the new element is constructed from value, and
\* act on the vector alike.
push_back(b, v, rv, bound) ==
    LET B == bufs[b] IN
    /\ B.alive
    /\ B.m_Size < bound
    /\ IF B.m_Size = B.m_Capacity
       THEN /\ HasFree(heap)
            /\ \E vals \in TransferVals(SlotsOf(heap, B), B.m_Size) :
                 LET p  == NewPtr(heap)
                     B1 == growBuf(B, p)
                     H1 == growHeap(heap, B, p, vals)
                 IN /\ Effect(Construct(H1, B1.m_Data, B1.m_Size, v))
                    /\ bufs' = [bufs EXCEPT ![b] = [B1 EXCEPT !.m_Size = B1.m_Size + 1]]
                    /\ op' = MkOp("push_back", b, "none", v, FALSE, TRUE,
                                  <<B1.m_Size, B1.m_Capacity>>)
       ELSE /\ Effect(Construct(heap, B.m_Data, B.m_Size, v))
            /\ bufs' = [bufs EXCEPT ![b] = [B EXCEPT !.m_Size = B.m_Size + 1]]
            /\ op' = MkOp("push_back", b, "none", v, FALSE, FALSE, <<>>)

\* pop_back(): throws std::out_of_range on an empty vector, before any write;
\* otherwise m_Size-- and then m_Data[m_Size].~T().
popEmptyByCapacity(B) == B.m_Capacity = 0
popEmpty(B) == B.m_Size = 0
popBuf(B) == [B EXCEPT !.m_Size = B.m_Size - 1]
popHeapFirst(H, B) == DestroyAt(H, B.m_Data, 0)
popHeap(H, B) == DestroyAt(H, B.m_Data, B.m_Size - 1)
pop_back(b) ==
    LET B == bufs[b] IN
    /\ B.alive
    /\ IF popEmpty(B)
       THEN /\ UNCHANGED bufs /\ NoEffect
            /\ op' = MkOp("pop_back", b, "none", 0, TRUE, FALSE, <<>>)
       ELSE /\ bufs' = [bufs EXCEPT ![b] = popBuf(B)]
            /\ Effect(popHeap(heap, B))
            /\ op' = MkOp("pop_back", b, "none", 0, FALSE, FALSE, <<>>)

\* clear(): nuke() and nothing else.
clear(b) ==
    LET B == bufs[b] IN
    /\ B.alive
    /\ Effect(nuke(heap, B))
    /\ op' = MkOp("clear", b, "none", 0, FALSE, FALSE, <<>>)
    /\ UNCHANGED bufs

\* reserve(p_Capacity).  The transfer loop constructs slot i of the new block
\* from std::move(m_Size[i]): the expression subscripts the size counter and
\* names no element of m_Data, so the constructed values are not determined by
\* the old block.
reserveBufKeepsCapacity(B, p, m) == [B EXCEPT !.m_Data = p]
reserveBuf(B, p, m) == [B EXCEPT !.m_Data = p, !.m_Capacity = m]
reserveHeap(H, B, p, m, vals) ==
    deallocate(nuke(Filled(H, p, m, vals), B), B.m_Data, B.m_Capacity)
reserve(b, m) ==
    LET B == bufs[b] IN
    /\ B.alive
    /\ IF m <= B.m_Capacity
       THEN /\ UNCHANGED bufs /\ NoEffect
       ELSE /\ HasFree(heap)
            /\ \E vals \in AnyVals(B.m_Size) :
                 LET p == NewPtr(heap) IN
                 /\ Effect(reserveHeap(heap, B, p, m, vals))
                 /\ bufs' = [bufs EXCEPT ![b] = reserveBuf(B, p, m)]
    /\ op' = MkOp("reserve", b, "none", m, FALSE, FALSE, <<>>)

\* v[i] = x through the reference operator[] returns (index < m_Size asserted).
write(b, i, x) ==
    LET B == bufs[b] IN
    /\ B.alive
    /\ i < B.m_Size
    /\ Effect(IF heap[B.m_Data].slots[i + 1].st = "live"
              THEN [heap EXCEPT ![B.m_Data].slots[i + 1].val = x]
              ELSE heap)
    /\ op' = MkOp("write", b, "none", 0, FALSE, FALSE, <<>>)
    /\ UNCHANGED bufs

\* FastVector()
DefaultConstruct(b) ==
    /\ ~bufs[b].alive
    /\ bufs' = [bufs EXCEPT ![b] = EmptyVector]
    /\ op' = MkOp("FastVector", b, "none", 0, FALSE, FALSE, <<>>)
    /\ NoEffect

\* ~FastVector()
Destroy(b) ==
    LET B == bufs[b] IN
    /\ B.alive
    /\ Effect(deallocate(nuke(heap, B), B.m_Data, B.m_Capacity))
    /\ bufs' = [bufs EXCEPT ![b] = NoObject]
    /\ op' = MkOp("~FastVector", b, "none", 0, FALSE, FALSE, <<>>)

\* FastVector(const FastVector& other)
copyBuf(S, p) == [alive |-> TRUE, m_Data |-> p, m_Size |-> S.m_Size, m_Capacity |-> S.m_Capacity]
CopyConstruct(b, other) ==
    LET S == bufs[other] IN
    /\ b # other
    /\ ~bufs[b].alive
    /\ S.alive
    /\ HasFree(heap)
    /\ \E vals \in TransferVals(SlotsOf(heap, S), S.m_Size) :
         LET p == NewPtr(heap) IN
         /\ Effect(Filled(heap, p, S.m_Capacity, vals))
         /\ bufs' = [bufs EXCEPT ![b] = copyBuf(S, p)]
    /\ op' = MkOp("copy", b, other, 0, FALSE, FALSE, <<>>)

\* FastVector(FastVector&& other) noexcept
movedFromKeepsSize(S) == [S EXCEPT !.m_Data = NULL, !.m_Capacity = 0]
movedFrom(S) == [S EXCEPT !.m_Data = NULL, !.m_Size = 0, !.m_Capacity = 0]
MoveConstruct(b, other) ==
    LET S == bufs[other] IN
    /\ b # other
    /\ ~bufs[b].alive
    /\ S.alive
    /\ bufs' = [bufs EXCEPT ![b] = S, ![other] = movedFrom(S)]
    /\ op' = MkOp("move", b, other, 0, FALSE, FALSE, <<>>)
    /\ NoEffect

\* operator=(FastVector&& other): nothing happens on self-assignment; otherwise
\* the own elements are destroyed, the own block is released with m_Size as
\* the element count, and other's three fields are taken over.
MoveAssign(b, other) ==
    LET B == bufs[b]
        S == bufs[other]
    IN
    /\ B.alive
    /\ S.alive
    /\ IF b = other
       THEN UNCHANGED bufs /\ NoEffect
       ELSE /\ Effect(deallocate(nuke(heap, B), B.m_Data, B.m_Size))
            /\ bufs' = [bufs EXCEPT ![b] = S, ![other] = movedFrom(S)]
    /\ op' = MkOp("move_assign", b, other, 0, FALSE, FALSE, <<>>)

\* ---------------------------------------------------------------- failures
\* No function of the class has a try block, so an exception leaves a call at
\* the statement that threw it, with everything done before it in place.

\* The blocks no vector holds any more.  A block stays lost for good, so a
\* run follows the first constructor failure that loses one and no second.
Leaked(H, Bf) ==
    {p \in Ptrs : H[p].st = "alloc" /\ \A b \in Bufs : ~(Bf[b].alive /\ Bf[b].m_Data = p)}

\* allocate() throws std::bad_alloc: it is the first statement of grow() after
\* newCapacity, and of reserve() after the capacity test.
badAllocAfterNuke(H, B) == nuke(H, B)
badAlloc(H, B) == H

\* T's constructor throws in a transfer loop at slot j of the new block p of n
\* slots, after the slots [0, j) were constructed from vals: the loop is left,
\* nothing after it runs, and nobody holds p.
transferThrowsAfterNuke(H, B, p, n, vals) == nuke(Filled(H, p, n, vals), B)
transferThrows(H, B, p, n, vals) == Filled(H, p, n, vals)

\* push_back when allocate() throws in grow().
push_back_bad_alloc(b, v, bound) ==
    LET B == bufs[b] IN
    /\ B.alive
    /\ B.m_Size <= bound
    /\ B.m_Size = B.m_Capacity
    /\ Effect(badAlloc(heap, B))
    /\ op' = MkThrow("push_back", b, "none", v, "bad_alloc")
    /\ UNCHANGED bufs

\* push_back when T's copy constructor throws in grow()'s copy loop, which is
\* compiled in when T is not nothrow move constructible.
push_back_transfer_throws(b, v, j, bound) ==
    LET B == bufs[b] IN
    /\ B.alive
    /\ B.m_Size <= bound
    /\ B.m_Size = B.m_Capacity
    /\ ~nothrow
    /\ j < B.m_Size
    /\ HasFree(heap)
    /\ Leaked(heap, bufs) = {}
    /\ \E vals \in TransferVals(SlotsOf(heap, B), j) :
         Effect(transferThrows(heap, B, NewPtr(heap), NewCapacity(B.m_Capacity), vals))
    /\ op' = MkThrow("push_back", b, "none", v, "transfer")
    /\ UNCHANGED bufs

\* push_back when T's constructor throws in push_back's own placement new,
\* after grow() (if it was called) has returned.
push_back_construct_throws(b, v, bound) ==
    LET B == bufs[b] IN
    /\ B.alive
    /\ B.m_Size <= bound
    /\ IF B.m_Size = B.m_Capacity
       THEN /\ HasFree(heap)
            /\ \E vals \in TransferVals(SlotsOf(heap, B), B.m_Size) :
                 LET p == NewPtr(heap) IN
                 /\ Effect(growHeap(heap, B, p, vals))
                 /\ bufs' = [bufs EXCEPT ![b] = growBuf(B, p)]
       ELSE UNCHANGED bufs /\ NoEffect
    /\ op' = MkThrow("push_back", b, "none", v, "construct")

\* v.push_back(v[i]), the const T& overload: value refers to slot i of the
\* vector's own block.  Without growth it is read while the slot is in place;
\* with growth it is read after grow() destroyed the slot and released the
\* block, and what is read then is undetermined.
push_back_self(b, i, bound) ==
    LET B == bufs[b] IN
    /\ B.alive
    /\ B.m_Size < bound
    /\ i < B.m_Size
    /\ IF B.m_Size = B.m_Capacity
       THEN /\ HasFree(heap)
            /\ \E vals \in TransferVals(SlotsOf(heap, B), B.m_Size), v \in Values :
                 LET p  == NewPtr(heap)
                     B1 == growBuf(B, p)
                     H1 == growHeap(heap, B, p, vals)
                 IN /\ Effect(Construct(H1, B1.m_Data, B1.m_Size, v))
                    /\ bufs' = [bufs EXCEPT ![b] = [B1 EXCEPT !.m_Size = B1.m_Size + 1]]
                    /\ op' = MkOp("push_back_self", b, "none", i, FALSE, TRUE,
                                  <<B1.m_Size, B1.m_Capacity>>)
       ELSE /\ \E v \in ReadVals(heap[B.m_Data].slots[i + 1]) :
                 Effect(Construct(heap, B.m_Data, B.m_Size, v))
            /\ bufs' = [bufs EXCEPT ![b] = [B EXCEPT !.m_Size = B.m_Size + 1]]
            /\ op' = MkOp("push_back_self", b, "none", i, FALSE, FALSE, <<>>)

\* reserve when allocate() throws.
reserve_bad_alloc(b, m) ==
    LET B == bufs[b] IN
    /\ B.alive
    /\ m > B.m_Capacity
    /\ Effect(badAlloc(heap, B))
    /\ op' = MkThrow("reserve", b, "none", m, "bad_alloc")
    /\ UNCHANGED bufs

\* reserve when T's constructor throws in the transfer loop.
reserve_transfer_throws(b, m, j) ==
    LET B == bufs[b] IN
    /\ B.alive
    /\ m > B.m_Capacity
    /\ ~nothrow
    /\ j < B.m_Size
    /\ HasFree(heap)
    /\ Leaked(heap, bufs) = {}
    /\ \E vals \in AnyVals(j) :
         Effect(transferThrows(heap, B, NewPtr(heap), m, vals))
    /\ op' = MkThrow("reserve", b, "none", m, "transfer")
    /\ UNCHANGED bufs

\* FastVector(const FastVector& other) when T's copy constructor throws at
\* slot j: the object under construction never comes to life, so its
\* destructor does not run.
CopyConstructThrows(b, other, j) ==
    LET S == bufs[other] IN
    /\ b # other
    /\ ~bufs[b].alive
    /\ S.alive
    /\ j < S.m_Size
    /\ HasFree(heap)
    /\ Leaked(heap, bufs) = {}
    /\ \E vals \in TransferVals(SlotsOf(heap, S), j) :
         Effect(transferThrows(heap, S, NewPtr(heap), S.m_Capacity, vals))
    /\ op' = MkThrow("copy", b, other, 0, "transfer")
    /\ UNCHANGED bufs

\* ---------------------------------------------------------- specifications
Init ==
    /\ bufs = [b \in Bufs |-> IF b = "b1" THEN EmptyVector ELSE NoObject]
    /\ heap = [p \in Ptrs |-> FreeBlock]
    /\ op = NoOp
    /\ hist = <<>>
    /\ rsv = NoRsv
    /\ nothrow = TRUE
    /\ log = {}

\* The ghosts of a step of b1, read off the call the step made.
HistStep ==
    CASE op'.name = "push_back" -> Track(hist, op'.arg)
      [] op'.name = "pop_back" /\ ~op'.threw -> Track(hist, 0)
      [] OTHER -> HistOff
RsvStep ==
    CASE op'.name = "push_back" -> RsvPush(rsv)
      [] op'.name = "reserve" /\ op'.arg >= bufs["b1"].m_Capacity ->
            [on |-> TRUE, k |-> op'.arg, blk |-> bufs'["b1"].m_Data,
             s0 |-> bufs["b1"].m_Size, n |-> 0]
      [] OTHER -> NoRsv

\* One vector, as in src/src/Main.cpp, driven through its whole interface.
Tracked == hist' = HistStep /\ rsv' = RsvStep /\ UNCHANGED nothrow
Next ==
    \/ \E v \in Values, rv \in BOOLEAN : push_back("b1", v, rv, MaxSize) /\ Tracked
    \/ pop_back("b1") /\ Tracked
    \/ clear("b1") /\ Tracked
    \/ \E m \in 0 .. MaxReserve : reserve("b1", m) /\ Tracked
    \/ \E i \in 0 .. MaxSize - 1, x \in Values : write("b1", i, x) /\ Tracked

Spec == Init /\ [][Next]_vars

\* Two vectors: the calls above on either, plus construction, destruction,
\* copy and move between them.
Untracked == UNCHANGED <<hist, rsv, nothrow>>
NextPair ==
    \/ \E b \in Bufs, v \in Values, rv \in BOOLEAN :
         push_back(b, v, rv, MaxPairSize) /\ Untracked
    \/ \E b \in Bufs : pop_back(b) /\ Untracked
    \/ \E b \in Bufs : clear(b) /\ Untracked
    \/ \E b \in Bufs, m \in 0 .. MaxPairReserve : reserve(b, m) /\ Untracked
    \/ \E b \in Bufs, i \in 0 .. MaxPairSize - 1, x \in Values : write(b, i, x) /\ Untracked
    \/ \E b \in Bufs : DefaultConstruct(b) /\ Untracked
    \/ \E b \in Bufs : Destroy(b) /\ Untracked
    \/ \E b \in Bufs, o \in Bufs : CopyConstruct(b, o) /\ Untracked
    \/ \E b \in Bufs, o \in Bufs : MoveConstruct(b, o) /\ Untracked
    \/ \E b \in Bufs, o \in Bufs : MoveAssign(b, o) /\ Untracked

SpecPair == Init /\ [][NextPair]_vars

\* One vector of an element type whose constructors may throw, on a heap that
\* may run out, with a second vector made as a copy of it; the first vector may
\* pass one of its own elements to push_back.
InitFail ==
    /\ bufs = [b \in Bufs |-> IF b = "b1" THEN EmptyVector ELSE NoObject]
    /\ heap = [p \in Ptrs |-> FreeBlock]
    /\ op = NoOp
    /\ hist = <<>>
    /\ rsv = NoRsv
    /\ nothrow \in BOOLEAN
    /\ log = {}

NextFail ==
    \/ \E v \in Values, rv \in BOOLEAN : push_back("b1", v, rv, MaxFailSize) /\ Untracked
    \/ \E v \in Values : push_back_bad_alloc("b1", v, MaxFailSize) /\ Untracked
    \/ \E v \in Values, j \in 0 .. MaxFailSize - 1 :
         push_back_transfer_throws("b1", v, j, MaxFailSize) /\ Untracked
    \/ \E v \in Values : push_back_construct_throws("b1", v, MaxFailSize) /\ Untracked
    \/ \E i \in 0 .. MaxFailSize - 1 : push_back_self("b1", i, MaxFailSize) /\ Untracked
    \/ pop_back("b1") /\ Untracked
    \/ \E m \in 0 .. MaxFailReserve : reserve("b1", m) /\ Untracked
    \/ \E m \in 0 .. MaxFailReserve : reserve_bad_alloc("b1", m) /\ Untracked
    \/ \E m \in 0 .. MaxFailReserve, j \in 0 .. MaxFailSize - 1 :
         reserve_transfer_throws("b1", m, j) /\ Untracked
    \/ \E j \in 0 .. MaxFailSize - 1 : CopyConstructThrows("b2", "b1", j) /\ Untracked

SpecFail == InitFail /\ [][NextFail]_vars

\* ------------------------------------------------------------------ claims
\* The object a step acted on, before and after the step.
Pre == bufs[op'.b]
Post == bufs'[op'.b]
Vals(H, B, k) == [i \in 1 .. k |-> SlotsOf(H, B)[i].val]

\* C1: from a default-constructed vector, after N push_back calls and nothing
\* else, size() is N and operator[](i) is the i-th value pushed, each slot
\* holding a live object, however many times the vector grew.
C1_PushSequence ==
    AllPush(hist) =>
        /\ bufs["b1"].m_Size = Len(hist)
        /\ \A i \in 1 .. Len(hist) :
             SlotsOf(heap, bufs["b1"])[i] = [val |-> hist[i], st |-> "live"]

\* C1 witness: five pushes with differing values, the last one growing 4 -> 8.
C1_Witness ==
    /\ AllPush(hist) /\ Len(hist) = 5 /\ hist[1] # hist[2]
    /\ op.grew /\ bufs["b1"].m_Capacity = 8

\* C2: clear() destroys the N live elements, leaves size() == 0 and keeps the
\* capacity and the storage block.
C2_Clear ==
    [][op'.name = "clear" =>
         /\ Post.m_Size = 0
         /\ Post.m_Capacity = Pre.m_Capacity
         /\ Post.m_Data = Pre.m_Data
         /\ \A i \in 1 .. Pre.m_Size : SlotsOf(heap', Pre)[i].st # "live"]_vars

\* C3: pop_back() on a vector of size 0 throws and changes nothing: not the
\* object's fields, not any storage block.
C3_PopEmpty ==
    [][(op'.name = "pop_back" /\ Pre.m_Size = 0) =>
         /\ op'.threw
         /\ bufs' = bufs
         /\ heap' = heap]_vars

\* C3 witness: pop_back() threw on an empty vector that still owns a block,
\* beside a moved-from (empty, storage-less) vector.
C3_Witness ==
    /\ op.name = "pop_back" /\ op.threw
    /\ bufs[op.b].m_Size = 0 /\ bufs[op.b].m_Capacity > 0
    /\ \E o \in Bufs : o # op.b /\ bufs[o] = EmptyVector

\* C4: pop_back() on a vector of size >= 1 destroys exactly the slot at index
\* size-1, decrements size, and leaves capacity, storage and every other slot
\* as they were; and push a, b, c; pop; pop; push d gives [a, d], size 2.
C4_Scenario ==
    (Len(hist) = 6 /\ ScenarioPrefix(hist)) =>
        /\ bufs["b1"].m_Size = 2
        /\ SlotsOf(heap, bufs["b1"])[1] = [val |-> hist[1], st |-> "live"]
        /\ SlotsOf(heap, bufs["b1"])[2] = [val |-> hist[6], st |-> "live"]
C4_PopStep ==
    (op'.name = "pop_back" /\ Pre.m_Size >= 1) =>
        /\ ~op'.threw
        /\ Post = [Pre EXCEPT !.m_Size = Pre.m_Size - 1]
        /\ heap'[Pre.m_Data].slots[Pre.m_Size].st = "dead"
        /\ \A i \in 1 .. Len(heap[Pre.m_Data].slots) :
             i # Pre.m_Size => heap'[Pre.m_Data].slots[i] = heap[Pre.m_Data].slots[i]
        /\ \A q \in Ptrs : q # Pre.m_Data => heap'[q] = heap[q]
C4_PopBack == [][C4_PopStep /\ C4_Scenario']_vars

\* C4 witness: the scenario has run with a # d.
C4_Witness ==
    /\ Len(hist) = 6 /\ ScenarioPrefix(hist) /\ hist[1] # hist[6]
    /\ op.name = "push_back"

\* C5: after move construction or move assignment between distinct vectors
\* the destination has the source's size, capacity and storage block (hence
\* its elements), the source is as default-constructed, and the block itself
\* is untouched.
C5_Move ==
    [][(op'.name \in {"move", "move_assign"} /\ op'.b # op'.src) =>
         /\ bufs'[op'.b] = bufs[op'.src]
         /\ bufs'[op'.src] = EmptyVector
         /\ bufs[op'.src].m_Data # NULL =>
              heap'[bufs[op'.src].m_Data] = heap[bufs[op'.src].m_Data]]_vars

\* C5 witness: a move assignment has handed a block with a live element over.
C5_Witness ==
    /\ op.name = "move_assign" /\ op.b # op.src
    /\ bufs[op.b].m_Size >= 1 /\ AllLive(heap, bufs[op.b])
    /\ bufs[op.src] = EmptyVector

\* C6: copy construction gives the copy its own block, the source's size and
\* capacity and equal elements in order; and no call on one vector changes the
\* other's fields or block.
C6_Copy ==
    [][/\ op'.name = "copy" =>
            /\ Post.m_Data # NULL /\ Post.m_Data # bufs[op'.src].m_Data
            /\ Post.m_Size = bufs[op'.src].m_Size
            /\ Post.m_Capacity = bufs[op'.src].m_Capacity
            /\ bufs'[op'.src] = bufs[op'.src]
            /\ Vals(heap', Post, Post.m_Size) = Vals(heap, bufs[op'.src], Post.m_Size)
       /\ \A o \in Bufs :
            (o # op'.b /\ o # op'.src) =>
                /\ bufs'[o] = bufs[o]
                /\ bufs[o].m_Data # NULL => heap'[bufs[o].m_Data] = heap[bufs[o].m_Data]]_vars

\* C6, away from C2's defect: the same statement for a source whose slots
\* below m_Size all hold live objects holds.
C6_CopyOfLive ==
    [][/\ (op'.name = "copy" /\ AllLive(heap, bufs[op'.src])) =>
            /\ Post.m_Data # NULL /\ Post.m_Data # bufs[op'.src].m_Data
            /\ Post.m_Size = bufs[op'.src].m_Size
            /\ Post.m_Capacity = bufs[op'.src].m_Capacity
            /\ bufs'[op'.src] = bufs[op'.src]
            /\ Vals(heap', Post, Post.m_Size) = Vals(heap, bufs[op'.src], Post.m_Size)
       /\ \A o \in Bufs :
            (o # op'.b /\ o # op'.src) =>
                /\ bufs'[o] = bufs[o]
                /\ bufs[o].m_Data # NULL => heap'[bufs[o].m_Data] = heap[bufs[o].m_Data]]_vars

\* C7: push_back grows exactly when size == capacity, to 4 from 0 and to twice
\* the capacity otherwise, grow() itself leaving size alone; pop_back, clear
\* and element writes never change capacity or storage; so pushes alone from
\* empty walk the capacities 0, 4, 8, 16.
C7_PureCapacity ==
    AllPush(hist) =>
        bufs["b1"].m_Capacity =
            IF Len(hist) = 0 THEN 0 ELSE IF Len(hist) <= 4 THEN 4
            ELSE IF Len(hist) <= 8 THEN 8 ELSE 16
C7_GrowStep ==
    /\ op'.name = "push_back" =>
         IF Pre.m_Size = Pre.m_Capacity
         THEN /\ op'.grew
              /\ Post.m_Capacity = IF Pre.m_Capacity = 0 THEN 4 ELSE 2 * Pre.m_Capacity
              /\ op'.after = <<Pre.m_Size, Post.m_Capacity>>
         ELSE /\ ~op'.grew
              /\ Post.m_Capacity = Pre.m_Capacity
              /\ Post.m_Data = Pre.m_Data
    /\ op'.name \in {"pop_back", "clear", "write"} =>
         /\ ~op'.grew
         /\ Post.m_Capacity = Pre.m_Capacity
         /\ Post.m_Data = Pre.m_Data
C7_Growth == [][C7_GrowStep /\ C7_PureCapacity']_vars

\* C7 witness: the fifth push of a pure push sequence has grown 4 -> 8.
C7_Witness ==
    /\ AllPush(hist) /\ Len(hist) = 5
    /\ op.grew /\ op.after = <<4, 8>> /\ bufs["b1"].m_Capacity = 8

\* C8: push_back(v) adds one to size, makes the element at the new last index
\* v, leaves the elements below it at their prior values, and leaves capacity
\* and storage alone when size < capacity held.
C8_PushBack ==
    [][op'.name = "push_back" =>
         /\ Post.m_Size = Pre.m_Size + 1
         /\ SlotsOf(heap', Post)[Post.m_Size] = [val |-> op'.arg, st |-> "live"]
         /\ Vals(heap', Post, Pre.m_Size) = Vals(heap, Pre, Pre.m_Size)
         /\ Pre.m_Size < Pre.m_Capacity =>
              /\ Post.m_Capacity = Pre.m_Capacity
              /\ Post.m_Data = Pre.m_Data]_vars

\* C8, away from C2's defect: the same statement for a vector whose slots
\* below m_Size all hold live objects holds.
C8_PushBackOfLive ==
    [][(op'.name = "push_back" /\ AllLive(heap, Pre)) =>
         /\ Post.m_Size = Pre.m_Size + 1
         /\ SlotsOf(heap', Post)[Post.m_Size] = [val |-> op'.arg, st |-> "live"]
         /\ Vals(heap', Post, Pre.m_Size) = Vals(heap, Pre, Pre.m_Size)
         /\ Pre.m_Size < Pre.m_Capacity =>
              /\ Post.m_Capacity = Pre.m_Capacity
              /\ Post.m_Data = Pre.m_Data]_vars

\* C9: reserve(m) changes nothing when m <= capacity; otherwise capacity
\* becomes m, a new block replaces the old one, which is released, and size
\* and the element values at [0, size) are preserved.
C9_Reserve ==
    [][op'.name = "reserve" =>
         IF op'.arg <= Pre.m_Capacity
         THEN bufs' = bufs /\ heap' = heap
         ELSE /\ Post.m_Capacity = op'.arg
              /\ Post.m_Data # NULL /\ Post.m_Data # Pre.m_Data
              /\ Pre.m_Data # NULL => heap'[Pre.m_Data].st = "free"
              /\ Post.m_Size = Pre.m_Size
              /\ Vals(heap', Post, Pre.m_Size) = Vals(heap, Pre, Pre.m_Size)]_vars

\* C10 as stated: after reserve(k), k >= capacity, the capacity is k and the
\* block is the same after each of the next k pushes.
C10_Original ==
    rsv.on => bufs["b1"].m_Capacity = rsv.k /\ bufs["b1"].m_Data = rsv.blk

\* C10 amended: after reserve(k), k >= capacity, on a vector of size s, the
\* capacity is k and the block is the same after each of the next k - s
\* pushes (all k of them when the vector was empty).
C10_ReserveThenPush ==
    (rsv.on /\ rsv.n <= rsv.k - rsv.s0) =>
        bufs["b1"].m_Capacity = rsv.k /\ bufs["b1"].m_Data = rsv.blk

\* C10 witness: reserve(5) on an empty vector of smaller capacity, then five
\* pushes into the reserved block.
C10_Witness ==
    /\ rsv.on /\ rsv.s0 = 0 /\ rsv.k = 5 /\ rsv.n = 5
    /\ bufs["b1"].m_Size = 5 /\ bufs["b1"].m_Data = rsv.blk /\ ~op.grew

\* C11 (invariant I1/I4): in every reachable state, the slots [0, m_Size) of
\* every vector hold a constructed, not yet destroyed element and the slots
\* [m_Size, m_Capacity) hold no live element.
C11_LiveSlots ==
    \A b \in Bufs :
        bufs[b].alive =>
            \A i \in 1 .. Len(SlotsOf(heap, bufs[b])) :
                (SlotsOf(heap, bufs[b])[i].st = "live") <=> (i <= bufs[b].m_Size)

\* C12 (invariant I2): in every reachable state of every vector, the storage
\* pointer is non-null if and only if the capacity is positive.
C12_StorageIffCapacity ==
    \A b \in Bufs :
        bufs[b].alive => ((bufs[b].m_Data # NULL) <=> (bufs[b].m_Capacity > 0))

\* C13: in every reachable state 0 <= m_Size <= m_Capacity, where m_Capacity
\* is the number of slots of the block held; and the element a push_back has
\* just constructed lies inside that block, at index m_Size - 1.
C13_SizeWithinCapacity ==
    /\ \A b \in Bufs :
        /\ 0 <= bufs[b].m_Size
        /\ bufs[b].m_Size <= bufs[b].m_Capacity
        /\ bufs[b].m_Data # NULL =>
             /\ heap[bufs[b].m_Data].st = "alloc"
             /\ Len(heap[bufs[b].m_Data].slots) = bufs[b].m_Capacity
    /\ op.name = "push_back" /\ bufs[op.b].alive =>
         /\ bufs[op.b].m_Size >= 1
         /\ bufs[op.b].m_Size <= Len(SlotsOf(heap, bufs[op.b]))
         /\ SlotsOf(heap, bufs[op.b])[bufs[op.b].m_Size].st = "live"

\* C13 happens: a push_back has just filled a vector up to its capacity.
C13_Witness ==
    /\ op.name = "push_back"
    /\ bufs[op.b].alive
    /\ bufs[op.b].m_Size >= 1
    /\ bufs[op.b].m_Size = bufs[op.b].m_Capacity

\* C14: when allocate() throws inside push_back's growth or inside reserve,
\* the call ends with that exception and vector and heap are as before the
\* call: same block, size, capacity and elements, nothing destroyed or
\* released.
C14_BadAlloc ==
    [][op'.err = "bad_alloc" =>
         /\ op'.name \in {"push_back", "reserve"}
         /\ op'.threw
         /\ bufs' = bufs
         /\ heap' = heap
         /\ log' = {}]_vars

\* C14 happens: allocate() threw in the growth of a full, non-empty vector.
C14_Witness ==
    /\ op.name = "push_back"
    /\ op.err = "bad_alloc"
    /\ bufs[op.b].m_Size >= 1
    /\ bufs[op.b].m_Size = bufs[op.b].m_Capacity
    /\ AllLive(heap, bufs[op.b])

\* C15: when T's constructor throws part-way through a copy construction, a
\* growth transfer or a reserve transfer, the destination block is released
\* (with the elements constructed in it destroyed) before the exception
\* reaches the caller: the call leaves no block allocated that was not
\* allocated before it.
C15_TransferCleanup ==
    [][op'.err = "transfer" =>
         \A p \in Ptrs : heap'[p].st = "alloc" => heap[p].st = "alloc"]_vars

\* C16: every deallocate passes the element count the block was allocated
\* with.
C16_ReleaseCount == "size_mismatch" \notin log

\* C17: without failures, no call releases a block that is not allocated, a
\* block a vector holds is allocated, and every allocated block is held by
\* exactly one vector: so once every vector is destroyed every block that was
\* allocated has been released, once.
C17_ReleasedOnce ==
    /\ "double_free" \notin log
    /\ \A b \in Bufs :
         bufs[b].alive /\ bufs[b].m_Data # NULL => heap[bufs[b].m_Data].st = "alloc"
    /\ \A p \in Ptrs :
         heap[p].st = "alloc" =>
            Cardinality({b \in Bufs : bufs[b].alive /\ bufs[b].m_Data = p}) = 1
    /\ (\A b \in Bufs : ~bufs[b].alive) => \A p \in Ptrs : heap[p].st = "free"

\* C17 happens: the last vector has just been destroyed and its destructor
\* released a block.
C17_Witness ==
    /\ \A b \in Bufs : ~bufs[b].alive
    /\ op.name = "~FastVector"
    /\ "release" \in log
    /\ \A p \in Ptrs : heap[p].st = "free"

\* C18: when the copy loop of grow() fails at any element, nothing of the old
\* block has been destroyed or released: the vector still has its block, size
\* and capacity, and every block allocated before the call is as it was.
C18_GrowthKeepsOld ==
    [][op'.name = "push_back" /\ op'.err = "transfer" =>
         /\ bufs' = bufs
         /\ \A p \in Ptrs : heap[p].st = "alloc" => heap'[p] = heap[p]
         /\ log' = {}]_vars

\* C18 happens: the copy loop of a full vector failed after it had constructed
\* at least one element in the new block.
C18_Witness ==
    /\ op.name = "push_back"
    /\ op.err = "transfer"
    /\ ~nothrow
    /\ bufs[op.b].m_Size = bufs[op.b].m_Capacity
    /\ AllLive(heap, bufs[op.b])
    /\ \E p \in Leaked(heap, bufs) : \E i \in 1 .. Len(heap[p].slots) : heap[p].slots[i].st = "live"

\* C19: without failures, no call runs a destructor on a slot that holds no
\* live element, and no call releases a block that still holds one.
C19_DestroyedOnce == log \cap {"double_destroy", "leaked_element"} = {}

\* C20: v.push_back(v[i]) appends the value v[i] had before the call, also
\* when the call grows the vector.
C20_SelfPush ==
    [][op'.name = "push_back_self" /\ SlotsOf(heap, Pre)[op'.arg + 1].st = "live" =>
         /\ Post.m_Size = Pre.m_Size + 1
         /\ SlotsOf(heap', Post)[Post.m_Size] =
               [val |-> SlotsOf(heap, Pre)[op'.arg + 1].val, st |-> "live"]]_vars

\* Supporting C20: the claim holds for the calls that do not grow the vector.
C20_SelfPushInPlace ==
    [][op'.name = "push_back_self" /\ ~op'.grew
          /\ SlotsOf(heap, Pre)[op'.arg + 1].st = "live" =>
         /\ Post.m_Size = Pre.m_Size + 1
         /\ SlotsOf(heap', Post)[Post.m_Size] =
               [val |-> SlotsOf(heap, Pre)[op'.arg + 1].val, st |-> "live"]]_vars

====
